---- MODULE Spec2Model ----
(***************************************************************************)
(* StarlightVocoder (src/src/lib.rs): the parameter store and the          *)
(* per-block `process` callback.                                           *)
(*                                                                         *)
(* Frequencies are whole Hz, samples are whole numbers (both are values    *)
(* f32 and f64 represent exactly).  The sample rate handed to the filter   *)
(* designer is the literal 1.0 of the source, so Nyquist is one half and   *)
(* comparisons against it are written doubled.                             *)
(*                                                                         *)
(* The butterworth crate is not part of the sources.  What the source      *)
(* fixes is how its two Result values are consumed (unwrap) and over       *)
(* which values it is run; whether the crate rejects a request lying       *)
(* outside the designer's input constraints, and whether it rejects a      *)
(* vector as short as one sample frame, is a property of the build and is  *)
(* chosen once in Init (designRejects, applyRejects).  Its arithmetic is   *)
(* an integer linear recursion run forward and then backward.              *)
(***************************************************************************)
EXTENDS Integers, Sequences, FiniteSets

\* ---- bounds of the model ----
MaxFrames == 2        \* sample frames a stream holds in total

\* ---- program constants ----
Q == 300
SampleRate == 1
Order == 1
MinFreq == 0
MinBands == 1
MaxBands == 256
DefaultLow == 300
DefaultHigh == 3400
DefaultBands == 20

Samples == {0, 1}
Layouts == {1, 2}
LowValues == {MinFreq, DefaultLow}
HighValues == {MinFreq, DefaultHigh}
BandValues == {MinBands, DefaultBands}

VARIABLES
    params,         \* StlVocoderParams: [low, high, bands]
    layout,         \* negotiated channel count of the instance
    designRejects,  \* build: Filter::new returns Err outside the designer's constraints
    applyRejects,   \* build: bidirectional returns Err on a vector of one frame
    status,         \* "idle" | "normal" | "panicked"
    inp,            \* every sample handed to process so far, per channel
    out,            \* what process left in the buffers, per channel
    streamLow,      \* low_freq_cutoff in force for the first frame of inp
    steady,         \* every frame of inp was processed under streamLow
    cuts,           \* number of non-empty blocks inp arrived in
    lastIn,         \* buffer of the last call on entry
    lastOut,        \* buffer of the last call when it ended
    snapshot,       \* params as they stood during the last call
    requests,       \* designer requests of the last call, in order
    builtFrom,      \* request of the last filter designed before the last call
    allocs,         \* heap objects created inside the last call
    writes          \* per position: times the last call stored into it

vars == <<params, layout, designRejects, applyRejects, status, inp, out,
          streamLow, steady, cuts, lastIn, lastOut, snapshot, requests, builtFrom, allocs, writes>>

NoFilter == [order |-> 0, sampleRate |-> 0, lowHz |-> 0, highHz |-> 0]

\* ---- buffers: buf[c][t], channel-major like nih_plug's Buffer ----
EmptyBuffer(nch) == [c \in 1..nch |-> <<>>]

NumChannels(buf) == Len(buf)

NumSamples(buf) == IF Len(buf) = 0 THEN 0 ELSE Len(buf[1])

Blocks(nch, n) == [1..nch -> [1..n -> Samples]]

Concat(a, b) == [c \in 1..Len(a) |-> a[c] \o b[c]]

ZeroWrites(buf) == [c \in 1..NumChannels(buf) |-> [t \in 1..NumSamples(buf) |-> 0]]

\* ---- numeric conversions ----
Abs(v) == IF v < 0 THEN -v ELSE v

\* f64::from(f32): widening, every f32 value is an f64 value
F64FromF32(v) == v

RECURSIVE Ulp(_)
Ulp(m) == IF m < 2^24 THEN 1 ELSE 2 * Ulp(m \div 2)

\* `as f32`: round to the 24-bit significand, ties to even
AsF32(v) ==
    LET m == Abs(v)
        u == Ulp(m)
        q == m \div u
        r == m % u
        up == (2 * r > u) \/ (2 * r = u /\ q % 2 = 1)
        n == IF up THEN (q + 1) * u ELSE q * u
    IN  IF v < 0 THEN -n ELSE n

\* ---- the filter designer and the filter ----
ValidRequest(req) ==
    /\ req.sampleRate > 0
    /\ req.lowHz >= 0
    /\ req.lowHz < req.highHz
    /\ 2 * req.highHz <= req.sampleRate

Design(req) ==
    [b0 |-> 1 + (req.highHz - req.lowHz) \div 100,
     a1 |-> 1 + req.lowHz \div 100]

FilterNew(req) ==
    IF req.order < 1 \/ (~ValidRequest(req) /\ designRejects)
    THEN [ok |-> FALSE, filter |-> Design(NoFilter)]
    ELSE [ok |-> TRUE, filter |-> Design(req)]

Reverse(s) == [i \in 1..Len(s) |-> s[Len(s) + 1 - i]]

RECURSIVE Forward(_, _, _)
Forward(f, x, k) ==
    IF k = 0 THEN <<>>
    ELSE LET y == Forward(f, x, k - 1)
             prev == IF k = 1 THEN 0 ELSE y[k - 1]
         IN  Append(y, f.b0 * x[k] - f.a1 * prev)

Bidirectional(f, x) ==
    IF applyRejects
    THEN [ok |-> FALSE, data |-> <<>>]
    ELSE LET fwd == Forward(f, x, Len(x))
             bwd == Forward(f, Reverse(fwd), Len(x))
         IN  [ok |-> TRUE, data |-> Reverse(bwd)]

\* ---- process ----
\* iteration by channel instead of by time index: one item per channel,
\* holding a reference to every time index of that channel
IterChannels(buf) ==
    [c \in 1..NumChannels(buf) |-> [t \in 1..NumSamples(buf) |-> <<c, t>>]]

\* buffer.iter_samples(): one item per time index, holding a reference to
\* that index in every channel
IterSamples(buf) ==
    [t \in 1..NumSamples(buf) |-> [c \in 1..NumChannels(buf) |-> <<c, t>>]]

\* the passband taken between the two cutoff parameters
RequestBetweenCutoffs(p) ==
    [order |-> Order, sampleRate |-> SampleRate, lowHz |-> p.low, highHz |-> p.high]

Request(p) ==
    [order |-> Order, sampleRate |-> SampleRate, lowHz |-> p.low, highHz |-> p.low + Q]

Deref(buf, ref) == buf[ref[1]][ref[2]]

\* write-back that starts one element late
RECURSIVE WriteBackSkipFirst(_, _, _, _)
WriteBackSkipFirst(st, refs, res, k) ==
    IF k <= 1 THEN st
    ELSE LET s == WriteBackSkipFirst(st, refs, res, k - 1)
             c == refs[k][1]
             t == refs[k][2]
         IN  [s EXCEPT !.buf[c][t] = res[k], !.writes[c][t] = @ + 1]

\* for (i, f) in filter_res.iter().enumerate() { *samples_f32[i] = *f; }
RECURSIVE WriteBack(_, _, _, _)
WriteBack(st, refs, res, k) ==
    IF k = 0 THEN st
    ELSE LET s == WriteBack(st, refs, res, k - 1)
             c == refs[k][1]
             t == refs[k][2]
         IN  [s EXCEPT !.buf[c][t] = res[k], !.writes[c][t] = @ + 1]

\* one iteration of the loop body over the references `refs`
ProcessStep(st, refs, p) ==
    LET req == Request(p)
        d == FilterNew(req)
        asked == [st EXCEPT !.requests = Append(@, req)]
    IN  IF ~d.ok
        THEN [asked EXCEPT !.status = "panicked", !.allocs = @ + 1]
        ELSE
            LET x64 == [i \in 1..Len(refs) |-> F64FromF32(Deref(st.buf, refs[i]))]
                r == Bidirectional(d.filter, x64)
            IN  IF ~r.ok
                THEN [asked EXCEPT !.status = "panicked", !.allocs = @ + 3]
                ELSE
                    LET res == [i \in 1..Len(r.data) |-> AsF32(r.data[i])]
                    IN  IF Len(res) > Len(refs)
                        THEN [asked EXCEPT !.status = "panicked", !.allocs = @ + 4]
                        ELSE [WriteBack(asked, refs, res, Len(res))
                                 EXCEPT !.allocs = @ + 4]

RECURSIVE RunLoop(_, _, _, _)
RunLoop(st, items, k, p) ==
    IF k = 0 THEN st
    ELSE LET s == RunLoop(st, items, k - 1, p)
         IN  IF s.status = "panicked" THEN s ELSE ProcessStep(s, items[k], p)

ProcessBlock(buf, p) ==
    LET items == IterSamples(buf)
        start == [status |-> "normal", buf |-> buf, requests |-> <<>>,
                  allocs |-> 0, writes |-> ZeroWrites(buf)]
    IN  RunLoop(start, items, Len(items), p)

LastOr(s, d) == IF Len(s) = 0 THEN d ELSE s[Len(s)]

\* ---- the state machine ----
Init ==
    /\ params = [low |-> DefaultLow, high |-> DefaultHigh, bands |-> DefaultBands]
    /\ layout \in Layouts
    /\ designRejects \in BOOLEAN
    /\ applyRejects \in BOOLEAN
    /\ status = "idle"
    /\ inp = EmptyBuffer(layout)
    /\ out = EmptyBuffer(layout)
    /\ streamLow = params.low
    /\ steady = TRUE
    /\ cuts = 0
    /\ lastIn = EmptyBuffer(layout)
    /\ lastOut = EmptyBuffer(layout)
    /\ snapshot = params
    /\ requests = <<>>
    /\ builtFrom = NoFilter
    /\ allocs = 0
    /\ writes = ZeroWrites(EmptyBuffer(layout))

call == <<status, inp, out, streamLow, steady, cuts, lastIn, lastOut, snapshot, requests,
          builtFrom, allocs, writes>>

SetLow(v) ==
    /\ status # "panicked"
    /\ params' = [params EXCEPT !.low = v]
    /\ UNCHANGED <<layout, designRejects, applyRejects, call>>

SetHigh(v) ==
    /\ status # "panicked"
    /\ params' = [params EXCEPT !.high = v]
    /\ UNCHANGED <<layout, designRejects, applyRejects, call>>

SetBands(v) ==
    /\ status # "panicked"
    /\ params' = [params EXCEPT !.bands = v]
    /\ UNCHANGED <<layout, designRejects, applyRejects, call>>

Process(buf) ==
    /\ status # "panicked"
    /\ LET r == ProcessBlock(buf, params)
           n == NumSamples(buf)
       IN  /\ status' = r.status
           /\ inp' = Concat(inp, buf)
           /\ out' = Concat(out, r.buf)
           /\ streamLow' = IF NumSamples(inp) = 0 THEN params.low ELSE streamLow
           /\ steady' = (steady /\ (n = 0 \/ NumSamples(inp) = 0 \/ params.low = streamLow))
           /\ cuts' = IF n > 0 THEN cuts + 1 ELSE cuts
           /\ lastIn' = buf
           /\ lastOut' = r.buf
           /\ snapshot' = params
           /\ requests' = r.requests
           /\ builtFrom' = LastOr(requests, builtFrom)
           /\ allocs' = r.allocs
           /\ writes' = r.writes
    /\ UNCHANGED <<params, layout, designRejects, applyRejects>>

\* the blocks the host may hand over next: any length that keeps the stream
\* within MaxFrames, in the negotiated layout
HostBlocks ==
    UNION {Blocks(layout, n) : n \in 0..(MaxFrames - NumSamples(inp))}

Next ==
    \/ \E v \in LowValues : SetLow(v)
    \/ \E v \in HighValues : SetHigh(v)
    \/ \E v \in BandValues : SetBands(v)
    \/ \E buf \in HostBlocks : Process(buf)

Spec == Init /\ [][Next]_vars

\* ---- properties ----

\* C1: every call of process returns a status to the host; no call ends in
\* a panic, whatever the parameters, the layout and the block length.
NeverPanics == status # "panicked"

\* C2: every request process makes to the filter designer satisfies the
\* designer's input constraints (sampleRate > 0, 0 <= lowHz < highHz,
\* highHz <= sampleRate / 2).
RequestsSatisfyDesigner ==
    \A i \in 1..Len(requests) : ValidRequest(requests[i])

\* C3: the samples left in channel c depend only on the input of channel c
\* and the parameters: a block that agrees with the processed one on
\* channel c gives the same output on channel c.
ChannelsIndependent ==
    \A c \in 1..layout :
        \A alt \in Blocks(layout, NumSamples(lastIn)) :
            alt[c] = lastIn[c] => ProcessBlock(alt, snapshot).buf[c] = lastOut[c]

\* C4: a call made while low_freq_cutoff >= high_freq_cutoff returns
\* normally and leaves every sample of the block as it was (pass-through).
DegenerateCutoffsPassThrough ==
    (status # "idle" /\ snapshot.low >= snapshot.high)
        => (status = "normal" /\ lastOut = lastIn)

\* C5: a filter is designed only when the request differs from the one the
\* current coefficients were built from: no two successive designs, inside
\* a call or across calls, are for the same request.
DesignOnlyOnChange ==
    LET log == <<builtFrom>> \o requests
    IN  \A i \in 1..(Len(log) - 1) : log[i + 1] # log[i]

\* C6: with low_freq_cutoff unchanged over a stream, the output of the
\* stream processed in the blocks it arrived in equals the output of the
\* same stream processed as one block.
BlockSplitInvariant ==
    (steady /\ status # "idle") =>
        LET whole == ProcessBlock(inp, [snapshot EXCEPT !.low = streamLow])
        IN  /\ whole.status = status
            /\ whole.buf = out

BlockSplitWitness ==
    /\ steady
    /\ status = "normal"
    /\ cuts >= 2
    /\ layout = 2
    /\ out # inp

SnapshotWellFormed ==
    status # "idle" =>
        /\ MinFreq <= snapshot.low
        /\ snapshot.low <= snapshot.high
        /\ 2 * snapshot.high <= SampleRate
        /\ MinBands <= snapshot.bands
        /\ snapshot.bands <= MaxBands

\* C9: no heap object is created between entry to and return from process.
NoAllocationInProcess == allocs = 0

\* C10: every request of a call is BandPass(low, low + 300), and requests,
\* status and output of the call are the same for every value of bands and
\* of high_freq_cutoff.
IgnoresBandsAndHigh ==
    status # "idle" =>
        /\ \A i \in 1..Len(requests) :
               requests[i] = [order |-> Order, sampleRate |-> SampleRate,
                              lowHz |-> snapshot.low, highHz |-> snapshot.low + Q]
        /\ \A h \in HighValues : \A b \in BandValues :
               LET alt == ProcessBlock(lastIn, [snapshot EXCEPT !.high = h, !.bands = b])
               IN  /\ alt.requests = requests
                   /\ alt.status = status
                   /\ alt.buf = lastOut

IgnoresBandsWitness ==
    /\ status = "normal"
    /\ Len(requests) >= 1
    /\ snapshot.bands # DefaultBands
    /\ snapshot.high # DefaultHigh
    /\ lastOut # lastIn

====
